---- MODULE Spec2Model ----
(***************************************************************************)
(* Asset view-model pipeline of the portfolio tracker: the asset store of  *)
(* the home screen, its periodic price simulation, and the filter, search  *)
(* and sort stages that produce the rendered list.                         *)
(*                                                                         *)
(* Units.  Strings are sequences of UTF-16 code units.  A price is a       *)
(* whole number of mils (1/1000 of a currency unit), so that a price below *)
(* one cent can be written.  dailyChangePercent is a whole number of       *)
(* hundredths of a percent.  A Math.random() draw is a whole number r of   *)
(* 1/10000, standing for r/10000 in [0, 1).                                *)
(***************************************************************************)
EXTENDS Integers, Sequences, FiniteSets, TLC

VARIABLES
    assets,           \* HomeScreen state: the asset store
    searchQuery,      \* HomeScreen state
    sortField,        \* HomeScreen state
    sortDirection,    \* HomeScreen state
    filterType,       \* HomeScreen state
    processedAssets,  \* value held by the useMemo cell (the rendered list)
    memoDeps,         \* dependency list the useMemo cell was computed from
    lifecycle,        \* "constructed" | "mounted" | "unmounted"
    interval,         \* timer id held by the effect's closure (0: none)
    timers,           \* ids of the live timers of the runtime
    nextTimerId,      \* next id setInterval hands out
    elapsed,          \* phases of the 5-second cycle passed since its start
    ticks,            \* number of timer callbacks run so far
    fnInput,          \* direct call of a stage: copy of the argument array
                      \*   taken before the call
    fnCall,           \* the call made: its name and other arguments
    fnHeap,           \* the arrays that exist, by reference (1 is the argument)
    fnRet,            \* reference of the array the call returned (0: no call)
    route,            \* the route on top of the navigation stack
    similarAssets,    \* AssetDetailScreen: value held by its useMemo cell
    pressed           \* the sort controls pressed since the first render

homeVars == <<assets, searchQuery, sortField, sortDirection, filterType,
              processedAssets, memoDeps, lifecycle, interval, timers,
              nextTimerId, elapsed, ticks>>
fnVars == <<fnInput, fnCall, fnHeap, fnRet>>
uiVars == <<route, similarAssets, pressed>>
vars == <<assets, searchQuery, sortField, sortDirection, filterType,
          processedAssets, memoDeps, lifecycle, interval, timers,
          nextTimerId, elapsed, ticks, fnInput, fnCall, fnHeap, fnRet,
          route, similarAssets, pressed>>

(***************************************************************************)
(* Bounds of the model.                                                    *)
(***************************************************************************)
MaxTicks == 2
PhasesPerCycle == 2
MaxLen == 3
MaxSimLen == 4
MaxPresses == 3

\* The smaller of two numbers.
Min(a, b) == IF a < b THEN a ELSE b

(***************************************************************************)
(* Strings.                                                                *)
(***************************************************************************)
\* String.prototype.toLowerCase on the ASCII range: A-Z (65..90) map to
\* a-z (97..122), every other code unit is kept.
toLowerCase(s) ==
    [i \in 1..Len(s) |-> IF s[i] >= 65 /\ s[i] <= 90 THEN s[i] + 32 ELSE s[i]]

\* a < b on strings: lexicographic on code units, a proper prefix is smaller.
StrLess(a, b) ==
    \E k \in 0..Len(a) :
        /\ k <= Len(b)
        /\ \A i \in 1..k : a[i] = b[i]
        /\ IF k = Len(a)
             THEN k < Len(b)
             ELSE k < Len(b) /\ a[k + 1] < b[k + 1]

\* String.prototype.includes: q occurs in s as a contiguous substring.
includes(s, q) ==
    \E i \in 0..(Len(s) - Len(q)) : \A j \in 1..Len(q) : s[i + j] = q[j]

(***************************************************************************)
(* types/index.ts                                                          *)
(***************************************************************************)
AssetTypes == {"stock", "crypto"}
SortFields == {"name", "dailyChangePercent"}
SortDirections == {"asc", "desc"}
FilterTypes == {"all", "topGainers", "topLosers", "stocks", "crypto"}

Asset(id, name, symbol, type, price, change) ==
    [id |-> id, name |-> name, symbol |-> symbol, type |-> type,
     currentPrice |-> price, dailyChangePercent |-> change]

(***************************************************************************)
(* utils/assetUtils.ts: sortAssets                                         *)
(***************************************************************************)
\* Mutant: the name is compared as written, without case folding.
SortValueCaseSensitive(a, field) ==
    IF field = "name" THEN a.name ELSE a.dailyChangePercent

\* aValue / bValue of the comparator.
SortValue(a, field) ==
    IF field = "name" THEN toLowerCase(a.name) ELSE a.dailyChangePercent

\* x < y on two sort values of the same field.
ValueLess(x, y, field) ==
    IF field = "name" THEN StrLess(x, y) ELSE x < y

\* Mutant: a two-way comparator, which never answers 0 for a tie.
compareFnTwoWay(a, b, field, direction) ==
    LET aValue == SortValue(a, field)
        bValue == SortValue(b, field)
    IN  IF direction = "asc"
          THEN IF ValueLess(aValue, bValue, field) THEN -1 ELSE 1
          ELSE IF ValueLess(bValue, aValue, field) THEN -1 ELSE 1

\* The comparator handed to Array.prototype.sort.
compareFn(a, b, field, direction) ==
    LET aValue == SortValue(a, field)
        bValue == SortValue(b, field)
    IN  IF direction = "asc"
          THEN IF ValueLess(aValue, bValue, field) THEN -1
               ELSE IF ValueLess(bValue, aValue, field) THEN 1 ELSE 0
          ELSE IF ValueLess(bValue, aValue, field) THEN -1
               ELSE IF ValueLess(aValue, bValue, field) THEN 1 ELSE 0

\* One insertion step of the sort: x goes behind every element that the
\* comparator does not put after it, scanning from the end.
RECURSIVE InsertSorted(_, _, _, _)
InsertSorted(sorted, x, field, direction) ==
    IF sorted = <<>> THEN <<x>>
    ELSE IF compareFn(sorted[Len(sorted)], x, field, direction) > 0
           THEN Append(InsertSorted(SubSeq(sorted, 1, Len(sorted) - 1),
                                    x, field, direction),
                       sorted[Len(sorted)])
           ELSE Append(sorted, x)

\* Array.prototype.sort with the comparator: a stable comparison sort
\* (ECMAScript 2019, 22.1.3.27), here by insertion.
RECURSIVE ArraySort(_, _, _)
ArraySort(arr, field, direction) ==
    IF arr = <<>> THEN <<>>
    ELSE InsertSorted(ArraySort(SubSeq(arr, 1, Len(arr) - 1), field, direction),
                      arr[Len(arr)], field, direction)

\* Mutant: descending order obtained by reversing the ascending sort.
sortAssetsByReversal(arr, field, direction) ==
    LET up == ArraySort(arr, field, "asc")
    IN  IF direction = "asc" THEN up
        ELSE [i \in 1..Len(up) |-> up[Len(up) + 1 - i]]

sortAssets(arr, field, direction) == ArraySort(arr, field, direction)

(***************************************************************************)
(* utils/assetUtils.ts: filterAssets                                       *)
(***************************************************************************)
\* Mutant: top gainers keep an unchanged asset, dailyChangePercent >= 0.
filterAssetsGainersInclusive(arr, type) ==
    CASE type = "topGainers" -> SelectSeq(arr, LAMBDA a : a.dailyChangePercent >= 0)
      [] type = "topLosers"  -> SelectSeq(arr, LAMBDA a : a.dailyChangePercent < 0)
      [] type = "stocks"     -> SelectSeq(arr, LAMBDA a : a.type = "stock")
      [] type = "crypto"     -> SelectSeq(arr, LAMBDA a : a.type = "crypto")
      [] OTHER               -> arr

\* Mutant: top losers keep an unchanged asset, dailyChangePercent <= 0.
filterAssetsLosersInclusive(arr, type) ==
    CASE type = "topGainers" -> SelectSeq(arr, LAMBDA a : a.dailyChangePercent > 0)
      [] type = "topLosers"  -> SelectSeq(arr, LAMBDA a : a.dailyChangePercent <= 0)
      [] type = "stocks"     -> SelectSeq(arr, LAMBDA a : a.type = "stock")
      [] type = "crypto"     -> SelectSeq(arr, LAMBDA a : a.type = "crypto")
      [] OTHER               -> arr

\* Mutant: the losers case is a copy of the gainers case, with its test.
filterAssetsLosersCopied(arr, type) ==
    CASE type = "topGainers" -> SelectSeq(arr, LAMBDA a : a.dailyChangePercent > 0)
      [] type = "topLosers"  -> SelectSeq(arr, LAMBDA a : a.dailyChangePercent > 0)
      [] type = "stocks"     -> SelectSeq(arr, LAMBDA a : a.type = "stock")
      [] type = "crypto"     -> SelectSeq(arr, LAMBDA a : a.type = "crypto")
      [] OTHER               -> arr

\* Mutant: an unrecognized mode fails closed, the default branch returns [].
filterAssetsFailClosed(arr, type) ==
    CASE type = "topGainers" -> SelectSeq(arr, LAMBDA a : a.dailyChangePercent > 0)
      [] type = "topLosers"  -> SelectSeq(arr, LAMBDA a : a.dailyChangePercent < 0)
      [] type = "stocks"     -> SelectSeq(arr, LAMBDA a : a.type = "stock")
      [] type = "crypto"     -> SelectSeq(arr, LAMBDA a : a.type = "crypto")
      [] type = "all"        -> arr
      [] OTHER               -> <<>>

\* Mutant: the stocks case compares the category with the mode's name.
filterAssetsStocksByModeName(arr, type) ==
    CASE type = "topGainers" -> SelectSeq(arr, LAMBDA a : a.dailyChangePercent > 0)
      [] type = "topLosers"  -> SelectSeq(arr, LAMBDA a : a.dailyChangePercent < 0)
      [] type = "stocks"     -> SelectSeq(arr, LAMBDA a : a.type = "stocks")
      [] type = "crypto"     -> SelectSeq(arr, LAMBDA a : a.type = "crypto")
      [] OTHER               -> arr

filterAssets(arr, type) ==
    CASE type = "topGainers" -> SelectSeq(arr, LAMBDA a : a.dailyChangePercent > 0)
      [] type = "topLosers"  -> SelectSeq(arr, LAMBDA a : a.dailyChangePercent < 0)
      [] type = "stocks"     -> SelectSeq(arr, LAMBDA a : a.type = "stock")
      [] type = "crypto"     -> SelectSeq(arr, LAMBDA a : a.type = "crypto")
      [] OTHER               -> arr

(***************************************************************************)
(* utils/assetUtils.ts: updateAssetPrices                                  *)
(***************************************************************************)
\* (Math.random() - 0.5) * 10 for the draw r/10000, in thousandths of a
\* percent.
ChangePercentOf(r) == r - 5000

\* Math.round(x) for x = n / d with d > 0 and even: floor(x + 1/2).
MathRound(n, d) == (n + d \div 2) \div d

\* Math.round(newPrice * 100) / 100 in mils, where
\* newPrice = currentPrice * (1 + changePercent / 100).
NewCurrentPrice(price, changePercent) ==
    MathRound(price * (100000 + changePercent), 1000000) * 10

\* Math.round(changePercent * 100) / 100 in hundredths of a percent.
NewDailyChangePercent(changePercent) == MathRound(changePercent, 10)

\* Mutant: the new change is added to the change the asset had.
UpdateAssetAccumulating(asset, r) ==
    LET changePercent == ChangePercentOf(r)
    IN  [asset EXCEPT
            !.currentPrice = NewCurrentPrice(asset.currentPrice, changePercent),
            !.dailyChangePercent =
                asset.dailyChangePercent + NewDailyChangePercent(changePercent)]

\* Mutant: the returned record is built without spreading the asset.
UpdateAssetWithoutSpread(asset, r) ==
    LET changePercent == ChangePercentOf(r)
    IN  [currentPrice |-> NewCurrentPrice(asset.currentPrice, changePercent),
         dailyChangePercent |-> NewDailyChangePercent(changePercent)]

\* The map callback for one asset and its draw.
UpdateAsset(asset, r) ==
    LET changePercent == ChangePercentOf(r)
    IN  [asset EXCEPT
            !.currentPrice = NewCurrentPrice(asset.currentPrice, changePercent),
            !.dailyChangePercent = NewDailyChangePercent(changePercent)]

\* random[i] is the Math.random() draw of the i-th callback.
updateAssetPrices(arr, random) ==
    [i \in 1..Len(arr) |-> UpdateAsset(arr[i], random[i])]

(***************************************************************************)
(* utils/assetUtils.ts: getSimilarAssets                                   *)
(***************************************************************************)
\* The default value of the limit parameter.
DefaultLimit == 3

\* Mutant: the slice takes one element less, slice(0, end - 1).
Slice0OneLess(arr, end) ==
    LET len   == Len(arr)
        final == IF end - 1 < 0
                   THEN (IF len + end - 1 < 0 THEN 0 ELSE len + end - 1)
                   ELSE (IF end - 1 > len THEN len ELSE end - 1)
    IN  SubSeq(arr, 1, final)

\* Mutant: the slice takes one element more, slice(0, end + 1).
Slice0OneMore(arr, end) ==
    LET len   == Len(arr)
        final == IF end + 1 < 0
                   THEN (IF len + end + 1 < 0 THEN 0 ELSE len + end + 1)
                   ELSE (IF end + 1 > len THEN len ELSE end + 1)
    IN  SubSeq(arr, 1, final)

\* Array.prototype.slice(0, end): a negative end counts from the end of the
\* array, and the final index is clamped to 0..length.
Slice0(arr, end) ==
    LET len   == Len(arr)
        final == IF end < 0
                   THEN (IF len + end < 0 THEN 0 ELSE len + end)
                   ELSE (IF end > len THEN len ELSE end)
    IN  SubSeq(arr, 1, final)

\* Mutant: the filter tests the category only, not the id.
getSimilarAssetsSameTypeOnly(arr, currentAsset, limit) ==
    Slice0(SelectSeq(arr, LAMBDA a : a.type = currentAsset.type), limit)

\* Mutant: the peers are ordered by performance before they are cut.
getSimilarAssetsByPerformance(arr, currentAsset, limit) ==
    Slice0(sortAssets(SelectSeq(arr, LAMBDA a :
                          a.id # currentAsset.id /\ a.type = currentAsset.type),
                      "dailyChangePercent", "desc"),
           limit)

getSimilarAssets(arr, currentAsset, limit) ==
    Slice0(SelectSeq(arr, LAMBDA a :
               a.id # currentAsset.id /\ a.type = currentAsset.type),
           limit)

(***************************************************************************)
(* financial_assets.json, the static dataset both screens import.  The     *)
(* records follow the mock dataset of the screens' tests, with prices      *)
(* scaled down to stay within 32-bit integer arithmetic.                                *)
(***************************************************************************)
AppleInc == <<65, 112, 112, 108, 101, 32, 73, 110, 99, 46>>   \* "Apple Inc."
AAPL     == <<65, 65, 80, 76>>                                \* "AAPL"
Bitcoin  == <<66, 105, 116, 99, 111, 105, 110>>               \* "Bitcoin"
BTC      == <<66, 84, 67>>                                    \* "BTC"
TeslaInc == <<84, 101, 115, 108, 97, 32, 73, 110, 99, 46>>    \* "Tesla Inc."
TSLA     == <<84, 83, 76, 65>>                                \* "TSLA"

initialAssets ==
    << Asset(1, AppleInc, AAPL, "stock", 15000, 250),
       Asset(2, Bitcoin, BTC, "crypto", 4500, -120),
       Asset(3, TeslaInc, TSLA, "stock", 8000, 580) >>

(***************************************************************************)
(* screens/AssetDetailScreen.tsx                                           *)
(***************************************************************************)
\* Mutant: the similar assets are taken from the store of the home screen.
DetailSimilarAssetsFromStore(asset) == getSimilarAssets(assets, asset, 3)

\* The body of the useMemo callback of similarAssets.
DetailSimilarAssets(asset) == getSimilarAssets(initialAssets, asset, 3)

\* The decimal digits of a natural number.
RECURSIVE DecimalDigits(_)
DecimalDigits(n) ==
    IF n < 10 THEN <<48 + n>>
    ELSE Append(DecimalDigits(n \div 10), 48 + (n % 10))

\* Number.prototype.toFixed(2) of num / den, den > 0: "-" for a negative
\* number, then the magnitude rounded to hundredths, a half going up.
toFixed2(num, den) ==
    LET mag        == IF num < 0 THEN -num ELSE num
        hundredths == (200 * mag + den) \div (2 * den)
        cents      == hundredths % 100
    IN  (IF num < 0 THEN <<45>> ELSE <<>>)
        \o DecimalDigits(hundredths \div 100)
        \o <<46, 48 + (cents \div 10), 48 + (cents % 10)>>

\* The text of the Price Change row:
\* {isPositive ? '+' : ''}${(currentPrice * dailyChangePercent / 100).toFixed(2)}
\* with the price in mils and the change in hundredths of a percent.
PriceChangeText(asset) ==
    (IF asset.dailyChangePercent >= 0 THEN <<43>> ELSE <<>>)
    \o <<36>>
    \o toFixed2(asset.currentPrice * asset.dailyChangePercent, 10000000)

\* The Price Change row of the screen on top of the stack.
PriceChangeRow ==
    IF route.name = "AssetDetail" THEN PriceChangeText(route.params.asset)
    ELSE <<>>

(***************************************************************************)
(* screens/HomeScreen.tsx                                                  *)
(***************************************************************************)
\* Mutant: the search stops at the first match, as Array.prototype.find.
searchFilterFirstMatch(filtered, query) ==
    LET found == SelectSeq(filtered, LAMBDA a :
                     \/ includes(toLowerCase(a.name), toLowerCase(query))
                     \/ includes(toLowerCase(a.symbol), toLowerCase(query)))
    IN  IF query # <<>> THEN SubSeq(found, 1, Min(1, Len(found))) ELSE filtered

\* Mutant: the query is matched as typed, without case folding.
searchFilterQueryAsTyped(filtered, query) ==
    IF query # <<>>
      THEN SelectSeq(filtered, LAMBDA a :
               \/ includes(toLowerCase(a.name), query)
               \/ includes(toLowerCase(a.symbol), query))
      ELSE filtered

\* The search step of processedAssets.  A string is truthy when non-empty.
searchFilter(filtered, query) ==
    IF query # <<>>
      THEN SelectSeq(filtered, LAMBDA a :
               \/ includes(toLowerCase(a.name), toLowerCase(query))
               \/ includes(toLowerCase(a.symbol), toLowerCase(query)))
      ELSE filtered

\* Mutant: the sort field is fixed to the performance.
ComputeProcessedByPerformance(a, q, sf, sd, ft) ==
    LET filtered == filterAssets(a, ft)
    IN  sortAssets(searchFilter(filtered, q), "dailyChangePercent", sd)

\* The body of the useMemo callback.
ComputeProcessed(a, q, sf, sd, ft) ==
    LET filtered == filterAssets(a, ft)
    IN  sortAssets(searchFilter(filtered, q), sf, sd)

\* Mutant: the dependency list leaves out the asset store.
MemoDepsWithoutAssets(a, q, sf, sd, ft) == <<q, sf, sd, ft>>

\* The dependency list of the useMemo cell.
MemoDeps(a, q, sf, sd, ft) == <<a, q, sf, sd, ft>>

\* useMemo on a render with state (a, q, sf, sd, ft): the callback runs again
\* only when a dependency differs from the one of the previous render.
UseMemo(value, deps, a, q, sf, sd, ft) ==
    IF MemoDeps(a, q, sf, sd, ft) = deps
      THEN value
      ELSE ComputeProcessed(a, q, sf, sd, ft)

\* The render that follows a state update: the memo cell is brought up to date.
Render ==
    /\ processedAssets' = UseMemo(processedAssets, memoDeps, assets',
                                  searchQuery', sortField', sortDirection',
                                  filterType')
    /\ memoDeps' = MemoDeps(assets', searchQuery', sortField',
                            sortDirection', filterType')

\* Queries typed into the search box.
Queries == { <<>>, <<32>>, <<98, 116, 99>> }      \* "", " ", "btc"

\* Math.random() draws of the timer callback.
HomeRandoms == {0, 9999}

HomeInit ==
    /\ assets = initialAssets
    /\ searchQuery = <<>>
    /\ sortField = "name"
    /\ sortDirection = "asc"
    /\ filterType = "all"
    /\ processedAssets = ComputeProcessed(initialAssets, <<>>, "name", "asc", "all")
    /\ memoDeps = MemoDeps(initialAssets, <<>>, "name", "asc", "all")
    /\ lifecycle = "constructed"
    /\ interval = 0
    /\ timers = {}
    /\ nextTimerId = 1
    /\ elapsed = 0
    /\ ticks = 0

\* useEffect(..., []) on mount: setInterval(callback, 5000).
MountEffect ==
    /\ lifecycle = "constructed"
    /\ lifecycle' = "mounted"
    /\ interval' = nextTimerId
    /\ timers' = timers \cup {nextTimerId}
    /\ nextTimerId' = nextTimerId + 1
    /\ elapsed' = 0
    /\ UNCHANGED <<assets, searchQuery, sortField, sortDirection, filterType,
                   processedAssets, memoDeps, ticks>>

\* Mutant: the effect returns no cleanup, the interval is never cleared.
UnmountWithoutClear ==
    /\ lifecycle = "mounted"
    /\ lifecycle' = "unmounted"
    /\ UNCHANGED <<assets, searchQuery, sortField, sortDirection, filterType,
                   processedAssets, memoDeps, interval, timers, nextTimerId,
                   elapsed, ticks>>

\* The effect's cleanup on unmount: clearInterval(interval).
Unmount ==
    /\ lifecycle = "mounted"
    /\ lifecycle' = "unmounted"
    /\ timers' = timers \ {interval}
    /\ UNCHANGED <<assets, searchQuery, sortField, sortDirection, filterType,
                   processedAssets, memoDeps, interval, nextTimerId, elapsed,
                   ticks>>

\* Time passes without a timer callback: inside the cycle, or across its end
\* when no timer is live.
Advance ==
    /\ lifecycle # "constructed"
    /\ elapsed + 1 < PhasesPerCycle \/ timers = {}
    /\ elapsed' = (elapsed + 1) % PhasesPerCycle
    /\ UNCHANGED <<assets, searchQuery, sortField, sortDirection, filterType,
                   processedAssets, memoDeps, lifecycle, interval, timers,
                   nextTimerId, ticks>>

\* setState(updater) of the assets cell: React applies the updater to the
\* current state of a mounted component and drops it otherwise.
setAssets(updated) ==
    IF lifecycle = "mounted" THEN assets' = updated ELSE assets' = assets

\* Mutant: the callback reads the store through the closure of the effect,
\* setAssets(updateAssetPrices(assets)), which holds the store of the first
\* render.
IntervalFireStaleClosure(random) ==
    /\ timers # {}
    /\ elapsed + 1 = PhasesPerCycle
    /\ ticks < MaxTicks
    /\ elapsed' = 0
    /\ ticks' = ticks + 1
    /\ setAssets(updateAssetPrices(initialAssets, random))
    /\ UNCHANGED <<searchQuery, sortField, sortDirection, filterType,
                   lifecycle, interval, timers, nextTimerId>>
    /\ Render

\* Mutant: the callback updates the rendered list instead of the store,
\* setAssets(updateAssetPrices(processedAssets)).
IntervalFireFromView(random) ==
    /\ timers # {}
    /\ elapsed + 1 = PhasesPerCycle
    /\ ticks < MaxTicks
    /\ elapsed' = 0
    /\ ticks' = ticks + 1
    /\ setAssets(updateAssetPrices(processedAssets, random))
    /\ UNCHANGED <<searchQuery, sortField, sortDirection, filterType,
                   lifecycle, interval, timers, nextTimerId>>
    /\ Render

\* The cycle ends with the timer live: the interval callback runs
\* setAssets(prevAssets => updateAssetPrices(prevAssets)).
IntervalFire(random) ==
    /\ timers # {}
    /\ elapsed + 1 = PhasesPerCycle
    /\ ticks < MaxTicks
    /\ elapsed' = 0
    /\ ticks' = ticks + 1
    /\ setAssets(updateAssetPrices(assets, random))
    /\ UNCHANGED <<searchQuery, sortField, sortDirection, filterType,
                   lifecycle, interval, timers, nextTimerId>>
    /\ Render

\* onChangeText={setSearchQuery}
setSearchQuery(text) ==
    /\ lifecycle = "mounted"
    /\ searchQuery' = text
    /\ UNCHANGED <<assets, sortField, sortDirection, filterType, lifecycle,
                   interval, timers, nextTimerId, elapsed, ticks>>
    /\ Render

\* Mutant: choosing a filter puts the sort back to its initial state.
setFilterTypeResettingSort(type) ==
    /\ lifecycle = "mounted"
    /\ filterType' = type
    /\ sortField' = "name"
    /\ sortDirection' = "asc"
    /\ UNCHANGED <<assets, searchQuery, lifecycle, interval, timers,
                   nextTimerId, elapsed, ticks>>
    /\ Render

\* onPress={() => setFilterType(type)}
setFilterType(type) ==
    /\ lifecycle = "mounted"
    /\ filterType' = type
    /\ UNCHANGED <<assets, searchQuery, sortField, sortDirection, lifecycle,
                   interval, timers, nextTimerId, elapsed, ticks>>
    /\ Render

\* Mutant: a press on another field keeps the direction in force.
handleSortKeepingDirection(field) ==
    /\ lifecycle = "mounted"
    /\ IF sortField = field
         THEN /\ sortDirection' = (IF sortDirection = "asc" THEN "desc" ELSE "asc")
              /\ sortField' = sortField
         ELSE /\ sortField' = field
              /\ sortDirection' = sortDirection
    /\ UNCHANGED <<assets, searchQuery, filterType, lifecycle, interval,
                   timers, nextTimerId, elapsed, ticks>>
    /\ Render

handleSort(field) ==
    /\ lifecycle = "mounted"
    /\ IF sortField = field
         THEN /\ sortDirection' = (IF sortDirection = "asc" THEN "desc" ELSE "asc")
              /\ sortField' = sortField
         ELSE /\ sortField' = field
              /\ sortDirection' = "asc"
    /\ UNCHANGED <<assets, searchQuery, filterType, lifecycle, interval,
                   timers, nextTimerId, elapsed, ticks>>
    /\ Render

\* onPress={() => handleAssetPress(item)} of a row of the list:
\* navigation.navigate('AssetDetail', { asset }), which mounts the detail
\* screen on top of the home screen.
handleAssetPress(asset) ==
    /\ lifecycle = "mounted"
    /\ route.name = "Home"
    /\ \E i \in 1..Len(processedAssets) : processedAssets[i] = asset
    /\ route' = [name |-> "AssetDetail", params |-> [asset |-> asset]]
    /\ similarAssets' = DetailSimilarAssets(asset)
    /\ UNCHANGED <<homeVars, pressed>>

\* onPress={() => handleSimilarAssetPress(item)} of a similar asset:
\* navigation.replace('AssetDetail', { asset: similarAsset }).
handleSimilarAssetPress(similarAsset) ==
    /\ route.name = "AssetDetail"
    /\ \E i \in 1..Len(similarAssets) : similarAssets[i] = similarAsset
    /\ route' = [name |-> "AssetDetail", params |-> [asset |-> similarAsset]]
    /\ similarAssets' = DetailSimilarAssets(similarAsset)
    /\ UNCHANGED <<homeVars, pressed>>

\* The back button of the detail screen's header: the detail screen is
\* popped and unmounted, the home screen is on top again.
goBack ==
    /\ route.name = "AssetDetail"
    /\ route' = [name |-> "Home"]
    /\ similarAssets' = <<>>
    /\ UNCHANGED <<homeVars, pressed>>

(***************************************************************************)
(* Direct calls of the stages, as the unit tests make them.  Arrays are    *)
(* held by reference in fnHeap, so that a stage that writes to its         *)
(* argument would show.                                                    *)
(***************************************************************************)
\* A fresh array holding the given elements.
NewArray(h, elems) == [heap |-> Append(h, elems), ref |-> Len(h) + 1]

\* Mutant: .sort is applied to the argument itself, assets.sort(...).
sortAssetsInPlaceCall(h, ref, field, direction) ==
    [heap |-> [h EXCEPT ![ref] = sortAssets(h[ref], field, direction)],
     ref  |-> ref]

\* sortAssets: [...assets] is a fresh array, which .sort orders in place.
sortAssetsCall(h, ref, field, direction) ==
    LET copy == NewArray(h, h[ref])
    IN  [heap |-> [copy.heap EXCEPT
                      ![copy.ref] = sortAssets(copy.heap[copy.ref], field, direction)],
         ref  |-> copy.ref]

\* filterAssets: .filter returns a fresh array, the default branch returns
\* the argument itself.
filterAssetsCall(h, ref, type) ==
    IF type \in {"topGainers", "topLosers", "stocks", "crypto"}
      THEN NewArray(h, filterAssets(h[ref], type))
      ELSE [heap |-> h, ref |-> ref]

\* updateAssetPrices: .map returns a fresh array of fresh records.
updateAssetPricesCall(h, ref, random) ==
    NewArray(h, updateAssetPrices(h[ref], random))

\* getSimilarAssets: .filter and .slice each return a fresh array.
getSimilarAssetsCall(h, ref, currentAsset, limit) ==
    LET peers == NewArray(h, SelectSeq(h[ref], LAMBDA a :
                     a.id # currentAsset.id /\ a.type = currentAsset.type))
    IN  NewArray(peers.heap, getSimilarAssets(h[ref], currentAsset, limit))

\* The search step: .filter returns a fresh array, an empty query leaves
\* the array it was given.
searchFilterCall(h, ref, query) ==
    IF query # <<>>
      THEN NewArray(h, searchFilter(h[ref], query))
      ELSE [heap |-> h, ref |-> ref]

\* Names, with a pair equal up to case.
Name_ab == <<97, 98>>          \* "ab"
Name_AB == <<65, 66>>          \* "AB"
Name_b  == <<98>>              \* "b"
Name_a  == <<97>>              \* "a"
Sym_Q   == <<81>>              \* "Q"
Sym_ab  == <<97, 98>>          \* "ab"
Sym_Z   == <<90>>              \* "Z"
Sym_Bc  == <<66, 32, 99>>      \* "B c"

\* The assets direct calls are made on: names that tie up to case, changes
\* that tie, a zero change, a price below half a cent and a price that is
\* no whole number of cents.
FnAssets ==
    { Asset(1, Name_ab, Sym_Q,  "stock",  4,     150),
      Asset(2, Name_AB, Sym_ab, "crypto", 10,    -120),
      Asset(3, Name_b,  Sym_Z,  "stock",  12340, 0),
      Asset(4, Name_a,  Sym_Bc, "crypto", 995,   0) }

\* Collections of at most MaxLen assets with distinct ids, in any order.
FnCollections ==
    { c \in UNION { [1..n -> FnAssets] : n \in 0..MaxLen } :
        \A i, j \in 1..Len(c) : i # j => c[i].id # c[j].id }

\* Math.random() draws of a direct call: the ends of [0, 1), the middle,
\* and two draws whose change lies half-way between hundredths.
FnRandoms == {0, 4995, 5000, 7505, 9999}

\* Queries of a direct call of the search step: "", " ", "AB", "b", "zz".
FnQueries == { <<>>, <<32>>, <<65, 66>>, <<98>>, <<122, 122>> }

FnOutput == IF fnRet = 0 THEN <<>> ELSE fnHeap[fnRet]

FnSort(field, direction) ==
    /\ fnCall.name = "none"
    /\ fnCall' = [name |-> "sortAssets", field |-> field, direction |-> direction]
    /\ LET r == sortAssetsCall(fnHeap, 1, field, direction)
       IN  fnHeap' = r.heap /\ fnRet' = r.ref
    /\ UNCHANGED fnInput

FnFilter(type) ==
    /\ fnCall.name = "none"
    /\ fnCall' = [name |-> "filterAssets", filterType |-> type]
    /\ LET r == filterAssetsCall(fnHeap, 1, type)
       IN  fnHeap' = r.heap /\ fnRet' = r.ref
    /\ UNCHANGED fnInput

FnTick(random) ==
    /\ fnCall.name = "none"
    /\ fnCall' = [name |-> "updateAssetPrices", random |-> random]
    /\ LET r == updateAssetPricesCall(fnHeap, 1, random)
       IN  fnHeap' = r.heap /\ fnRet' = r.ref
    /\ UNCHANGED fnInput

FnSimilar(currentAsset, limit) ==
    /\ fnCall.name = "none"
    /\ fnCall' = [name |-> "getSimilarAssets", currentAsset |-> currentAsset,
                  limit |-> limit, limitOmitted |-> FALSE]
    /\ LET r == getSimilarAssetsCall(fnHeap, 1, currentAsset, limit)
       IN  fnHeap' = r.heap /\ fnRet' = r.ref
    /\ UNCHANGED fnInput

\* getSimilarAssets(assets, currentAsset): the limit takes its default.
FnSimilarDefault(currentAsset) ==
    /\ fnCall.name = "none"
    /\ fnCall' = [name |-> "getSimilarAssets", currentAsset |-> currentAsset,
                  limit |-> DefaultLimit, limitOmitted |-> TRUE]
    /\ LET r == getSimilarAssetsCall(fnHeap, 1, currentAsset, DefaultLimit)
       IN  fnHeap' = r.heap /\ fnRet' = r.ref
    /\ UNCHANGED fnInput

FnSearch(query) ==
    /\ fnCall.name = "none"
    /\ fnCall' = [name |-> "search", query |-> query]
    /\ LET r == searchFilterCall(fnHeap, 1, query)
       IN  fnHeap' = r.heap /\ fnRet' = r.ref
    /\ UNCHANGED fnInput

\* The navigator starts on the first screen of the stack, Home.
AppInit ==
    /\ route = [name |-> "Home"]
    /\ similarAssets = <<>>
    /\ pressed = <<>>

Init ==
    /\ HomeInit
    /\ AppInit
    /\ fnInput = <<>>
    /\ fnCall = [name |-> "none"]
    /\ fnHeap = << <<>> >>
    /\ fnRet = 0

Next ==
    \/ MountEffect /\ UNCHANGED <<fnVars, uiVars>>
    \/ Unmount /\ UNCHANGED <<fnVars, uiVars>>
    \/ Advance /\ UNCHANGED <<fnVars, uiVars>>
    \/ \E random \in [1..Len(assets) -> HomeRandoms] :
           IntervalFire(random) /\ UNCHANGED <<fnVars, uiVars>>
    \/ \E text \in Queries : setSearchQuery(text) /\ UNCHANGED <<fnVars, uiVars>>
    \/ \E type \in FilterTypes : setFilterType(type) /\ UNCHANGED <<fnVars, uiVars>>
    \/ \E field \in SortFields : handleSort(field) /\ UNCHANGED <<fnVars, uiVars>>

Spec == Init /\ [][Next]_vars

FnInit ==
    /\ HomeInit
    /\ AppInit
    /\ fnInput \in FnCollections
    /\ fnCall = [name |-> "none"]
    /\ fnHeap = <<fnInput>>
    /\ fnRet = 0

FnNext ==
    \/ \E field \in SortFields, direction \in SortDirections :
           FnSort(field, direction) /\ UNCHANGED <<homeVars, uiVars>>
    \/ \E type \in FilterTypes \cup {"unknown"} :
           FnFilter(type) /\ UNCHANGED <<homeVars, uiVars>>
    \/ \E random \in [1..Len(fnInput) -> FnRandoms] :
           FnTick(random) /\ UNCHANGED <<homeVars, uiVars>>
    \/ \E currentAsset \in FnAssets, limit \in 0..MaxLen :
           FnSimilar(currentAsset, limit) /\ UNCHANGED <<homeVars, uiVars>>
    \/ \E query \in FnQueries :
           FnSearch(query) /\ UNCHANGED <<homeVars, uiVars>>

FnSpec == FnInit /\ [][FnNext]_vars

(***************************************************************************)
(* Direct calls of getSimilarAssets on collections with up to MaxSimLen    *)
(* assets, enough of one category for the limit to cut.                    *)
(***************************************************************************)
SimAssets ==
    { Asset(1, Name_ab, Sym_Q,  "stock",  1000, 150),
      Asset(2, Name_AB, Sym_ab, "stock",  2000, -120),
      Asset(3, Name_b,  Sym_Z,  "stock",  3000, 580),
      Asset(4, Name_a,  Sym_Bc, "stock",  4000, 0),
      Asset(5, Name_b,  Sym_Q,  "stock",  5000, 310),
      Asset(6, Name_a,  Sym_Z,  "crypto", 6000, -50) }

SimCollections ==
    { c \in UNION { [1..n -> SimAssets] : n \in 0..MaxSimLen } :
        \A i, j \in 1..Len(c) : i # j => c[i].id # c[j].id }

SimInit ==
    /\ HomeInit
    /\ AppInit
    /\ fnInput \in SimCollections
    /\ fnCall = [name |-> "none"]
    /\ fnHeap = <<fnInput>>
    /\ fnRet = 0

SimNext ==
    \/ \E currentAsset \in SimAssets, limit \in (-1)..MaxSimLen :
           FnSimilar(currentAsset, limit) /\ UNCHANGED <<homeVars, uiVars>>
    \/ \E currentAsset \in SimAssets :
           FnSimilarDefault(currentAsset) /\ UNCHANGED <<homeVars, uiVars>>

SimSpec == SimInit /\ [][SimNext]_vars

(***************************************************************************)
(* The home screen under a script of presses on its sort controls, with    *)
(* the filter buttons and the search box in use and no timer callback.     *)
(***************************************************************************)
\* onPress={() => handleSort(field)} of a sort control.
SortPress(field) ==
    /\ Len(pressed) < MaxPresses
    /\ handleSort(field)
    /\ pressed' = Append(pressed, field)
    /\ UNCHANGED <<fnVars, route, similarAssets>>

PressNext ==
    \/ MountEffect /\ UNCHANGED <<fnVars, uiVars>>
    \/ \E field \in SortFields : SortPress(field)
    \/ \E text \in Queries : setSearchQuery(text) /\ UNCHANGED <<fnVars, uiVars>>
    \/ \E type \in FilterTypes : setFilterType(type) /\ UNCHANGED <<fnVars, uiVars>>

PressSpec == Init /\ [][PressNext]_vars

(***************************************************************************)
(* The two screens of the stack: the home screen stays mounted, and its    *)
(* timer live, under the detail screen.                                    *)
(***************************************************************************)
NavNext ==
    \/ MountEffect /\ UNCHANGED <<fnVars, uiVars>>
    \/ Advance /\ UNCHANGED <<fnVars, uiVars>>
    \/ \E random \in [1..Len(assets) -> HomeRandoms] :
           IntervalFire(random) /\ UNCHANGED <<fnVars, uiVars>>
    \/ \E i \in 1..Len(processedAssets) :
           handleAssetPress(processedAssets[i]) /\ UNCHANGED fnVars
    \/ \E i \in 1..Len(similarAssets) :
           handleSimilarAssetPress(similarAssets[i]) /\ UNCHANGED fnVars
    \/ goBack /\ UNCHANGED fnVars

NavSpec == Init /\ [][NavNext]_vars

(***************************************************************************)
(* Properties.                                                             *)
(***************************************************************************)
\* The sort key of the specification: the case-folded name, or the change.
KeyOf(a, field) ==
    IF field = "name" THEN toLowerCase(a.name) ELSE a.dailyChangePercent

\* k1 <= k2 on keys: lexicographic for names, numeric for changes.
KeyLeq(k1, k2, field) ==
    IF field = "name" THEN k1 = k2 \/ StrLess(k1, k2) ELSE k1 <= k2

KeysOf(arr, field) == [i \in 1..Len(arr) |-> KeyOf(arr[i], field)]

Reversed(seq) == [i \in 1..Len(seq) |-> seq[Len(seq) + 1 - i]]

\* The positions of the asset with the given id in arr.
PositionsOf(arr, id) == {k \in 1..Len(arr) : arr[k].id = id}

\* C1: in every reachable state of the home view the rendered list is
\* sort(search(filter(A, F), Q), S, D) of the current store and view
\* parameters, the stages applied in the order filter, search, sort.
C1_RenderIsPipeline ==
    processedAssets =
        sortAssets(searchFilter(filterAssets(assets, filterType), searchQuery),
                   sortField, sortDirection)

\* A tick was applied and every view parameter was moved off its default;
\* the list shows some assets, not all.
C1_Witness ==
    /\ ticks >= 1
    /\ filterType = "topGainers"
    /\ searchQuery # <<>>
    /\ sortField = "dailyChangePercent"
    /\ sortDirection = "desc"
    /\ Len(processedAssets) >= 1
    /\ Len(processedAssets) < Len(assets)

\* C2: a tick of a collection whose prices are all strictly positive
\* returns strictly positive prices, whatever the draws.
C2_PriceStaysPositive ==
    ( /\ fnCall.name = "updateAssetPrices"
      /\ \A i \in 1..Len(fnInput) : fnInput[i].currentPrice > 0 )
    => \A i \in 1..Len(FnOutput) : FnOutput[i].currentPrice > 0

\* C3: the store holds exactly the ids of the initial dataset, each once,
\* and every asset keeps the category it has in the initial dataset.
C3_ClosedUniverse ==
    /\ Len(assets) = Len(initialAssets)
    /\ \A i \in 1..Len(initialAssets) :
           Cardinality(PositionsOf(assets, initialAssets[i].id)) = 1
    /\ \A j \in 1..Len(assets) :
           \E i \in 1..Len(initialAssets) :
               /\ initialAssets[i].id = assets[j].id
               /\ initialAssets[i].type = assets[j].type

\* Two ticks were applied to the store while a filter hides part of it.
C3_Witness ==
    /\ ticks >= 2
    /\ assets # initialAssets
    /\ filterType = "crypto"
    /\ Len(processedAssets) < Len(assets)

\* C4: the timer is acquired once, on mount, is the only live timer while
\* the view is mounted, and is cleared by teardown wherever in the cycle it
\* happens: after teardown no timer is live and the store is never ticked.
C4_TimerReleased ==
    [][ /\ nextTimerId' <= 2
        /\ lifecycle' = "mounted" => timers' = {interval'}
        /\ lifecycle' = "unmounted" => timers' = {}
        /\ lifecycle = "unmounted" => assets' = assets /\ ticks' = ticks ]_vars

\* The view was torn down in the middle of a cycle, after a tick.
C4_Witness ==
    /\ lifecycle = "unmounted"
    /\ elapsed > 0
    /\ ticks >= 1

\* The band of C5 alone: the new price is within 5% of the old one, up to
\* the half cent that rounding to 2 decimals can add or take.
TickWithinBand ==
    fnCall.name = "updateAssetPrices" =>
        \A i \in 1..Len(fnInput) :
            LET old == fnInput[i].currentPrice
                new == FnOutput[i].currentPrice
            IN  /\ 95 * old - 500 <= 100 * new
                /\ 100 * new <= 105 * old + 500

\* C5: after one tick every price is within 5% of the old price, up to the
\* tolerance of rounding to 2 decimals, and is strictly positive.
C5_PriceBound ==
    /\ TickWithinBand
    /\ fnCall.name = "updateAssetPrices" =>
           \A i \in 1..Len(FnOutput) : FnOutput[i].currentPrice > 0

\* C6: a tick returns as many elements as it was given, and the element at
\* each position has the id, name, symbol and category of the input's.
C6_TickKeepsIdentity ==
    fnCall.name = "updateAssetPrices" =>
        /\ Len(FnOutput) = Len(fnInput)
        /\ \A i \in 1..Len(fnInput) :
               /\ {"id", "name", "symbol", "type"} \subseteq DOMAIN FnOutput[i]
               /\ FnOutput[i].id = fnInput[i].id
               /\ FnOutput[i].name = fnInput[i].name
               /\ FnOutput[i].symbol = fnInput[i].symbol
               /\ FnOutput[i].type = fnInput[i].type

\* A tick of three assets that changed a price.
C6_Witness ==
    /\ fnCall.name = "updateAssetPrices"
    /\ Len(fnInput) = 3
    /\ \E i \in 1..Len(fnInput) :
           FnOutput[i].currentPrice # fnInput[i].currentPrice

\* C7: after a call of any stage the argument array holds what it held
\* before the call: it equals the copy taken before the call.
C7_InputNotMutated ==
    fnCall.name # "none" => fnHeap[1] = fnInput

\* A sort that returned another order than the one it was given.
C7_Witness ==
    /\ fnCall.name = "sortAssets"
    /\ Len(fnInput) >= 2
    /\ FnOutput # fnInput

\* C8: sort is stable in both directions: two input elements whose keys are
\* equal come out in the relative order they have in the input.
C8_SortStable ==
    fnCall.name = "sortAssets" =>
        \A i, j \in 1..Len(fnInput) :
            ( /\ i < j
              /\ KeyOf(fnInput[i], fnCall.field) = KeyOf(fnInput[j], fnCall.field) )
            => \E k, l \in 1..Len(FnOutput) :
                   /\ k < l
                   /\ FnOutput[k] = fnInput[i]
                   /\ FnOutput[l] = fnInput[j]

\* A descending sort of three assets, two of which tie on the key.
C8_Witness ==
    /\ fnCall.name = "sortAssets"
    /\ fnCall.direction = "desc"
    /\ Len(fnInput) = 3
    /\ \E i, j \in 1..Len(fnInput) :
           /\ i < j
           /\ KeyOf(fnInput[i], fnCall.field) = KeyOf(fnInput[j], fnCall.field)
    /\ FnOutput # fnInput

\* C9: the output of sort is a permutation of its input whose keys are
\* non-decreasing for asc and non-increasing for desc, the key of name being
\* the case-folded name; the keys of the desc result are those of the asc
\* result in reverse.
C9_SortOrdersKeys ==
    fnCall.name = "sortAssets" =>
        LET f   == fnCall.field
            out == FnOutput
        IN  /\ Len(out) = Len(fnInput)
            /\ \A i \in 1..Len(fnInput) :
                   Cardinality(PositionsOf(out, fnInput[i].id)) = 1
            /\ \A i \in 1..Len(fnInput) : \E k \in 1..Len(out) : out[k] = fnInput[i]
            /\ \A k \in 1..(Len(out) - 1) :
                   IF fnCall.direction = "asc"
                     THEN KeyLeq(KeyOf(out[k], f), KeyOf(out[k + 1], f), f)
                     ELSE KeyLeq(KeyOf(out[k + 1], f), KeyOf(out[k], f), f)
            /\ KeysOf(sortAssets(fnInput, f, "desc"), f)
                   = Reversed(KeysOf(sortAssets(fnInput, f, "asc"), f))

\* A sort by name of three assets whose names differ in case, which
\* returned another order than the one it was given.
C9_Witness ==
    /\ fnCall.name = "sortAssets"
    /\ fnCall.field = "name"
    /\ Len(fnInput) = 3
    /\ \E i, j \in 1..Len(fnInput) :
           /\ fnInput[i].name # fnInput[j].name
           /\ toLowerCase(fnInput[i].name) = toLowerCase(fnInput[j].name)
    /\ FnOutput # fnInput

\* C10: sort is idempotent: sorting the output of a sort again, by the same
\* field and direction, returns that output.
C10_SortIdempotent ==
    fnCall.name = "sortAssets" =>
        sortAssets(FnOutput, fnCall.field, fnCall.direction) = FnOutput

\* A sort that reordered a collection holding a tie.
C10_Witness ==
    /\ fnCall.name = "sortAssets"
    /\ Len(fnInput) >= 3
    /\ FnOutput # fnInput
    /\ \E i, j \in 1..Len(fnInput) :
           /\ i # j
           /\ KeyOf(fnInput[i], fnCall.field) = KeyOf(fnInput[j], fnCall.field)

\* out holds distinct elements of arr, in the order they have in arr.
InInputOrder(out, arr) ==
    \A k, l \in 1..Len(out) :
        k < l => \E i, j \in 1..Len(arr) :
                     i < j /\ arr[i] = out[k] /\ arr[j] = out[l]

\* out is the subsequence of arr, in input order, of the elements whose
\* position is in the set keep.
IsSubsequenceAt(out, arr, keep) ==
    /\ Len(out) = Cardinality(keep)
    /\ \A i \in keep : \E k \in 1..Len(out) : out[k] = arr[i]
    /\ \A k \in 1..Len(out) : \E i \in keep : arr[i] = out[k]
    /\ InInputOrder(out, arr)

ClassesOf(a, arr) ==
    LET gainers == filterAssets(arr, "topGainers")
        losers  == filterAssets(arr, "topLosers")
    IN  (IF \E k \in 1..Len(gainers) : gainers[k] = a THEN 1 ELSE 0)
        + (IF \E k \in 1..Len(losers) : losers[k] = a THEN 1 ELSE 0)
        + (IF a.dailyChangePercent = 0 THEN 1 ELSE 0)

\* C13: the top gainers, the top losers and the unchanged assets of a
\* collection partition it: every asset is in exactly one of the three, and
\* the two filters return assets of the collection only.
C13_FilterPartition ==
    /\ \A i \in 1..Len(fnInput) : ClassesOf(fnInput[i], fnInput) = 1
    /\ \A type \in {"topGainers", "topLosers"} :
           LET out == filterAssets(fnInput, type)
           IN  /\ \A k \in 1..Len(out) : \E i \in 1..Len(fnInput) : fnInput[i] = out[k]
               /\ \A k, l \in 1..Len(out) : k # l => out[k] # out[l]
    /\ fnCall.name = "filterAssets" => FnOutput = filterAssets(fnInput, fnCall.filterType)

\* A filter was called on a collection with a gainer, a loser and an
\* unchanged asset.
C13_Witness ==
    /\ fnCall.name = "filterAssets"
    /\ fnCall.filterType \in {"topGainers", "topLosers"}
    /\ \E i, j, k \in 1..Len(fnInput) :
           /\ fnInput[i].dailyChangePercent > 0
           /\ fnInput[j].dailyChangePercent < 0
           /\ fnInput[k].dailyChangePercent = 0

C15_CategoryFilters ==
    LET stocks == filterAssets(fnInput, "stocks")
        crypto == filterAssets(fnInput, "crypto")
    IN  /\ IsSubsequenceAt(stocks, fnInput,
               {i \in 1..Len(fnInput) : fnInput[i].type = "stock"})
        /\ IsSubsequenceAt(crypto, fnInput,
               {i \in 1..Len(fnInput) : fnInput[i].type = "crypto"})
        /\ \A k \in 1..Len(stocks), l \in 1..Len(crypto) : stocks[k] # crypto[l]
        /\ \A i \in 1..Len(fnInput) :
               \/ \E k \in 1..Len(stocks) : stocks[k] = fnInput[i]
               \/ \E l \in 1..Len(crypto) : crypto[l] = fnInput[i]
        /\ (fnCall.name = "filterAssets" /\ fnCall.filterType = "stocks")
               => FnOutput = stocks
        /\ (fnCall.name = "filterAssets" /\ fnCall.filterType = "crypto")
               => FnOutput = crypto

\* The stocks of three assets of both categories.
C15_Witness ==
    /\ fnCall.name = "filterAssets"
    /\ fnCall.filterType = "stocks"
    /\ Len(fnInput) = 3
    /\ Len(FnOutput) = 2

\* Only spaces.
IsBlank(query) == \A i \in 1..Len(query) : query[i] = 32

\* C16: search with an empty or a blank (whitespace-only) query is the
\* identity: it returns every asset of its input, in input order.
C16_BlankQueryIsIdentity ==
    (fnCall.name = "search" /\ IsBlank(fnCall.query)) => FnOutput = fnInput

\* q occurs in s: some stretch of s equals q.
IsSubstring(q, s) ==
    \E i \in 1..(Len(s) - Len(q) + 1) : SubSeq(s, i, i + Len(q) - 1) = q

\* The case-folded query occurs in the case-folded name or symbol of a.
QueryMatches(a, query) ==
    \/ IsSubstring(toLowerCase(query), toLowerCase(a.name))
    \/ IsSubstring(toLowerCase(query), toLowerCase(a.symbol))

\* C17: for a non-empty query, search keeps an asset if and only if the
\* case-folded query is a substring of its case-folded name or symbol, in
\* input order; a query no asset matches gives the empty sequence.
C17_SearchBySubstring ==
    (fnCall.name = "search" /\ fnCall.query # <<>>) =>
        /\ IsSubsequenceAt(FnOutput, fnInput,
               {i \in 1..Len(fnInput) : QueryMatches(fnInput[i], fnCall.query)})
        /\ (\A i \in 1..Len(fnInput) : ~QueryMatches(fnInput[i], fnCall.query))
               => FnOutput = <<>>

\* An upper-case query kept two of three assets, one of them with a
\* lower-case name that holds the query only after case folding.
C17_Witness ==
    /\ fnCall.name = "search"
    /\ fnCall.query = <<65, 66>>
    /\ Len(fnInput) = 3
    /\ Len(FnOutput) = 2
    /\ \E k \in 1..Len(FnOutput) :
           /\ ~IsSubstring(fnCall.query, FnOutput[k].name)
           /\ ~IsSubstring(fnCall.query, FnOutput[k].symbol)

\* The positions in arr of the peers of focal: same category, another id.
PeerPositions(arr, focal) ==
    {i \in 1..Len(arr) : arr[i].type = focal.type /\ arr[i].id # focal.id}

\* C18: no element of similar(A, focal, n) has the id of focal, for every
\* collection, every focal asset and every limit.
C18_SimilarExcludesFocal ==
    fnCall.name = "getSimilarAssets" =>
        \A k \in 1..Len(FnOutput) : FnOutput[k].id # fnCall.currentAsset.id

\* The focal asset is in the collection, ahead of two peers that are
\* returned.
C18_Witness ==
    /\ fnCall.name = "getSimilarAssets"
    /\ Len(fnInput) >= 3
    /\ fnInput[1] = fnCall.currentAsset
    /\ Len(FnOutput) = 2

\* C19: for a limit n >= 0, similar(A, focal, n) has at most n elements (none
\* for n = 0), and at most 3 when the limit is omitted.
C19_SimilarCap ==
    fnCall.name = "getSimilarAssets" =>
        /\ fnCall.limit >= 0 => Len(FnOutput) <= fnCall.limit
        /\ fnCall.limit = 0 => FnOutput = <<>>
        /\ fnCall.limitOmitted => Len(FnOutput) <= 3

\* The limit was omitted and cut four peers down to three.
C19_Witness ==
    /\ fnCall.name = "getSimilarAssets"
    /\ fnCall.limitOmitted
    /\ Cardinality(PeerPositions(fnInput, fnCall.currentAsset)) = 4
    /\ Len(FnOutput) = 3

\* C20: for a limit n >= 0, similar(A, focal, n) is the first n, in the order
\* of A, of the assets of A with the category of focal and another id: no
\* asset of another category, no other order.
C20_SimilarFirstPeers ==
    (fnCall.name = "getSimilarAssets" /\ fnCall.limit >= 0) =>
        LET peers == PeerPositions(fnInput, fnCall.currentAsset)
            first == {i \in peers :
                         Cardinality({j \in peers : j <= i}) <= fnCall.limit}
        IN  /\ IsSubsequenceAt(FnOutput, fnInput, first)
            /\ \A k \in 1..Len(FnOutput) :
                   FnOutput[k].type = fnCall.currentAsset.type

\* Two of three peers were returned from a collection that also holds an
\* asset of the other category, ahead of a peer.
C20_Witness ==
    /\ fnCall.name = "getSimilarAssets"
    /\ fnCall.limit = 2
    /\ Cardinality(PeerPositions(fnInput, fnCall.currentAsset)) = 3
    /\ fnInput[1].type # fnCall.currentAsset.type
    /\ Len(FnOutput) = 2

\* C21 (amended): for a limit n >= 0, similar(A, focal, n) has exactly
\* min(n, p) elements, where p is the number of assets of A with the
\* category of focal and another id: fewer than n when fewer peers exist,
\* and none exactly when n = 0 or there is no such peer (an empty A, or an
\* A that holds no asset of the category besides focal).
C21_SimilarCount ==
    (fnCall.name = "getSimilarAssets" /\ fnCall.limit >= 0) =>
        LET p == Cardinality(PeerPositions(fnInput, fnCall.currentAsset))
        IN  /\ Len(FnOutput) = Min(fnCall.limit, p)
            /\ p < fnCall.limit => Len(FnOutput) < fnCall.limit
            /\ FnOutput = <<>> <=> (fnCall.limit = 0 \/ p = 0)

\* The collection holds the focal asset, one peer and an asset of the other
\* category; the one peer is returned under a limit of 3.
C21_Witness ==
    /\ fnCall.name = "getSimilarAssets"
    /\ fnCall.limit = 3
    /\ Len(fnInput) = 3
    /\ \E i \in 1..Len(fnInput) : fnInput[i] = fnCall.currentAsset
    /\ Cardinality(PeerPositions(fnInput, fnCall.currentAsset)) = 1
    /\ Len(FnOutput) = 1

\* C21 (as stated): similar returns fewer than limit elements when fewer
\* peers exist, and the empty sequence when the collection has at most one
\* matching peer or is empty.
C21_EmptyWithOnePeer ==
    (fnCall.name = "getSimilarAssets" /\ fnCall.limit >= 0) =>
        LET p == Cardinality(PeerPositions(fnInput, fnCall.currentAsset))
        IN  /\ p < fnCall.limit => Len(FnOutput) < fnCall.limit
            /\ (p <= 1 \/ fnInput = <<>>) => FnOutput = <<>>

\* C22: after a tick every asset's change is the drawn delta rounded to 2
\* decimal places (the nearest hundredth of a percent) and lies in
\* [-5, +5], whatever its change was before the tick.
C22_ChangeIsRoundedDelta ==
    fnCall.name = "updateAssetPrices" =>
        /\ Len(FnOutput) = Len(fnInput)
        /\ \A i \in 1..Len(FnOutput) :
               LET delta == ChangePercentOf(fnCall.random[i])
                   change == FnOutput[i].dailyChangePercent
               IN  /\ 10 * change - delta \in (-5)..5
                   /\ change \in (-500)..500

\* An asset with a change of 1.50 drew a delta of 2.505 and now has 2.51;
\* another asset of the call drew the largest delta and has 5.00.
C22_Witness ==
    /\ fnCall.name = "updateAssetPrices"
    /\ \E i, j \in 1..Len(fnInput) :
           /\ fnInput[i].dailyChangePercent = 150
           /\ fnCall.random[i] = 7505
           /\ FnOutput[i].dailyChangePercent = 251
           /\ fnCall.random[j] = 9999
           /\ FnOutput[j].dailyChangePercent = 500

\* The keys of list for field are in the order of direction.
InKeyOrder(list, field, direction) ==
    \A k \in 1..(Len(list) - 1) :
        IF direction = "asc"
          THEN KeyLeq(KeyOf(list[k], field), KeyOf(list[k + 1], field), field)
          ELSE KeyLeq(KeyOf(list[k + 1], field), KeyOf(list[k], field), field)

\* C23: from the initial state of the home view, one press on the Name sort
\* control shows the assets in ascending name order, and a second press
\* shows them in descending name order.
C23_NamePressAscThenDesc ==
    /\ pressed = <<"name">> => InKeyOrder(processedAssets, "name", "asc")
    /\ pressed = <<"name", "name">> => InKeyOrder(processedAssets, "name", "desc")

Abs(n) == IF n < 0 THEN -n ELSE n

\* C24: the detail view shows the dollar price change, price * change / 100
\* to 2 decimals, with its sign before the currency symbol: "+$" and the
\* amount when the change is not negative, "-$" and the absolute amount
\* when it is negative.
C24_SignBeforeCurrency ==
    route.name = "AssetDetail" =>
        LET asset  == route.params.asset
            amount == toFixed2(Abs(asset.currentPrice * asset.dailyChangePercent),
                               10000000)
        IN  PriceChangeRow =
                (IF asset.dailyChangePercent >= 0 THEN <<43, 36>> ELSE <<45, 36>>)
                \o amount

\* What C30 says of a state with the detail view on top: the list is the
\* first 3 peers of the focal asset in the initial dataset, each with the
\* price and change it has there.
SimilarFromInitialDataset ==
    route.name = "AssetDetail" =>
        LET peers == PeerPositions(initialAssets, route.params.asset)
            first == {i \in peers : Cardinality({j \in peers : j <= i}) <= 3}
        IN  /\ IsSubsequenceAt(similarAssets, initialAssets, first)
            /\ \A k \in 1..Len(similarAssets) :
                   \E i \in 1..Len(initialAssets) :
                       /\ initialAssets[i].id = similarAssets[k].id
                       /\ initialAssets[i].currentPrice = similarAssets[k].currentPrice
                       /\ initialAssets[i].dailyChangePercent
                              = similarAssets[k].dailyChangePercent

\* C30: the detail view lists the similar assets of the static initial
\* dataset, limit 3, with the prices and changes of that dataset whatever
\* number of ticks the store has had; the focal asset is the one passed at
\* navigation time, and a tick changes neither it nor the list.
C30_DetailReadsInitialDataset ==
    [][ /\ SimilarFromInitialDataset'
        /\ (route.name = "Home" /\ route'.name = "AssetDetail") =>
               \E i \in 1..Len(processedAssets) :
                   route'.params.asset = processedAssets[i]
        /\ (route.name = "AssetDetail" /\ ticks' # ticks) =>
               /\ route' = route
               /\ similarAssets' = similarAssets ]_vars

\* The detail view was opened after a tick and has been open during
\* another: the focal asset and the listed one both differ from what the
\* store now holds under their ids.
C30_Witness ==
    /\ route.name = "AssetDetail"
    /\ ticks >= 2
    /\ similarAssets # <<>>
    /\ route.params.asset \notin {initialAssets[i] : i \in 1..Len(initialAssets)}
    /\ \A i \in 1..Len(assets) :
           /\ assets[i] # route.params.asset
           /\ assets[i] # similarAssets[1]

\* C26: the result of the pipeline does not depend on the order of its
\* stages: search after filter equals filter after search, and filter and
\* search of the sorted collection equal the sort of the filtered and
\* searched collection, for every filter mode, query, sort field and
\* direction.
C26_StageOrderIrrelevant ==
    /\ \A F \in FilterTypes, Q \in FnQueries :
           searchFilter(filterAssets(fnInput, F), Q)
               = filterAssets(searchFilter(fnInput, Q), F)
    /\ fnCall.name = "sortAssets" =>
           \A F \in FilterTypes, Q \in FnQueries :
               searchFilter(filterAssets(FnOutput, F), Q)
                   = sortAssets(searchFilter(filterAssets(fnInput, F), Q),
                                fnCall.field, fnCall.direction)

\* A sort by name moved the elements of a collection of three, two of
\* which have the same key and match a query the third does not match, and
\* one of which a filter drops.
C26_Witness ==
    /\ fnCall.name = "sortAssets"
    /\ fnCall.field = "name"
    /\ Len(fnInput) = 3
    /\ FnOutput # fnInput
    /\ Len(searchFilter(fnInput, <<65, 66>>)) = 2
    /\ Len(filterAssets(searchFilter(FnOutput, <<65, 66>>), "crypto")) = 1

\* What k successive ticks can make of one asset.  A tick draws for each
\* asset on its own, so the stores that k successive ticks of a collection
\* can give are those that hold, at each position, one of these.
RECURSIVE TickedAsset(_, _)
TickedAsset(asset, k) ==
    IF k = 0 THEN {asset}
    ELSE {UpdateAsset(a, r) : a \in TickedAsset(asset, k - 1), r \in HomeRandoms}

\* store is the result of k successive ticks of the initial dataset.
IsTickResult(store, k) ==
    /\ Len(store) = Len(initialAssets)
    /\ \A i \in 1..Len(initialAssets) :
           store[i] \in TickedAsset(initialAssets[i], k)

\* C27: a timer firing replaces the store with a tick of the store current
\* at that firing, and nothing else changes the store: after k firings,
\* however interleaved with filter, query and sort changes, the store is the
\* result of k successive ticks of the initial collection.
C27_TicksCompose ==
    [][ /\ ticks' = ticks + 1 =>
               \E r \in [1..Len(assets) -> HomeRandoms] :
                   assets' = updateAssetPrices(assets, r)
        /\ ticks' = ticks => assets' = assets
        /\ ticks' \in {ticks, ticks + 1}
        /\ IsTickResult(assets', ticks') ]_vars

\* Two firings, with the filter, the query and the sort all moved off their
\* initial values.
C27_Witness ==
    /\ ticks = 2
    /\ ~IsTickResult(assets, 1)
    /\ filterType = "topLosers"
    /\ searchQuery # <<>>
    /\ sortField = "dailyChangePercent"

\* C28: a change of the filter mode, the query or the sort leaves the store
\* unchanged; a change of the filter mode or the query leaves the sort field
\* and direction unchanged; a tick leaves the filter mode, the query and the
\* sort field and direction unchanged.
C28_DisjointState ==
    [][ /\ ( \/ filterType' # filterType
             \/ searchQuery' # searchQuery
             \/ sortField' # sortField
             \/ sortDirection' # sortDirection ) => assets' = assets
        /\ (filterType' # filterType \/ searchQuery' # searchQuery) =>
               /\ sortField' = sortField
               /\ sortDirection' = sortDirection
        /\ ticks' # ticks =>
               /\ filterType' = filterType
               /\ searchQuery' = searchQuery
               /\ sortField' = sortField
               /\ sortDirection' = sortDirection ]_vars

\* A filter, a query and a descending sort by performance are in force and
\* the store has been ticked.
C28_Witness ==
    /\ ticks >= 1
    /\ assets # initialAssets
    /\ filterType = "stocks"
    /\ searchQuery = <<32>>
    /\ sortField = "dailyChangePercent"
    /\ sortDirection = "desc"

\* The ids of a list, in its order.
IdsOf(list) == [k \in 1..Len(list) |-> list[k].id]

\* C29: with filter mode all, stocks or crypto and sort field name, a tick
\* leaves the rendered sequence of ids as it was; only the price and the
\* change of the rendered assets change.
C29_TickKeepsRenderedIds ==
    [][ ( /\ ticks' # ticks
          /\ filterType \in {"all", "stocks", "crypto"}
          /\ sortField = "name" ) =>
            /\ IdsOf(processedAssets') = IdsOf(processedAssets)
            /\ \A k \in 1..Len(processedAssets) :
                   /\ processedAssets'[k].name = processedAssets[k].name
                   /\ processedAssets'[k].symbol = processedAssets[k].symbol
                   /\ processedAssets'[k].type = processedAssets[k].type ]_vars

\* The stocks are shown by descending name, under a query both match, with
\* prices a tick has given them.
C29_Witness ==
    /\ ticks >= 1
    /\ filterType = "stocks"
    /\ searchQuery = <<32>>
    /\ sortField = "name"
    /\ sortDirection = "desc"
    /\ Len(processedAssets) = 2
    /\ \A k \in 1..Len(processedAssets) :
           \A i \in 1..Len(initialAssets) :
               processedAssets[k].currentPrice # initialAssets[i].currentPrice

====
